---- MODULE Spec2Model ----
(***************************************************************************)
(* Model of pipelinewise-target-vertica: the table synchroniser            *)
(* (DbSync.sync_table / update_columns), the staged merge loader           *)
(* (DbSync.load_csv), the schema flattener (utils.flatten_schema), the     *)
(* type mapper (utils.column_type), the record flattener and CSV writer    *)
(* (utils.flatten_record, DbSync.record_to_csv_line) and configuration     *)
(* validation with open_connection (utils.validate_config, DbSync).        *)
(***************************************************************************)
EXTENDS Integers, Sequences, FiniteSets, TLC

VARIABLES
    \* ---- warehouse catalog and the table synchroniser (db_sync.py) ----
    tables,        \* names of the tables of the target schema (v_catalog.tables)
    columns,       \* columns of the target table: [column_name, data_type]
    now,           \* the wall clock, in minutes (time.strftime("%Y%m%d_%H%M"))
    grantees,      \* self.grantees: the configured grantee role(s)
    call,          \* what the last sync_table / update_columns call did
    createRuns,    \* how many times the create branch of sync_table ran
    grantLog,      \* roles granted SELECT, in order
    \* ---- the staged merge loader (DbSync.load_csv) and DbSync.query ----
    key_properties,  \* stream_schema_message['key_properties']
    perm,          \* the permanent table: a bag of rows, row -> count
    file,          \* the batch file of the load under way or last run
    attempt,       \* 1 for a first load of the file, more for a retry
    base,          \* the permanent table when the first load of the file began
    firstFailed,   \* where the first load of the file raised, or "no"
    pc,            \* where the operation under way stands
    conns,         \* the connections that are open
    connLog,       \* every connection vertica.connect has made, in order
    myConn,        \* the connection of the operation under way
    temps,         \* the temporary tables that exist, each in its session
    myTemp,        \* temp_table of the load under way
    tempLog,       \* every temporary table name drawn, in order
    inserts,       \* the counts load_csv logs
    updates,
    outcome,       \* how the last operation ended
    opsDone,       \* operations run so far
    \* ---- the schema flattener (utils.flatten_schema) ----
    schema,        \* stream_schema_message['schema'] as the SCHEMA message gave it
    max_level,     \* data_flattening_max_level
    flat,          \* what flatten_schema returned or raised, and the schema
                   \* object as the call left it
    fpc,           \* "ready" before DbSync.__init__ flattens, "done" after
    \* ---- utils.column_type ----
    schema_property,  \* the leaf schema column_type is called with
    col_type,      \* what column_type returned ("unset" before the call)
    \* ---- utils.flatten_record and DbSync.record_to_csv_line ----
    record,        \* the record of a RECORD message
    flatten,       \* [done, items]: what flatten_record returned for it
    csv_line,      \* [done, text]: what record_to_csv_line returned for it
    \* ---- utils.validate_config, DbSync.__init__ and DbSync.open_connection ----
    connection_config,  \* the connection configuration DbSync is built with
    config_errors, \* what validate_config returned for it
    dbsync,        \* "new" before DbSync(...), then "constructed" or "exited"
    connection     \* [done, raised, sslmode]: how open_connection ended

syncVars == <<tables, columns, now, grantees, call,
              createRuns, grantLog>>

loadVars == <<key_properties, perm, file, attempt, base, firstFailed, pc, conns,
              connLog, myConn, temps, myTemp, tempLog, inserts, updates,
              outcome, opsDone>>

flatVars == <<schema, max_level, flat, fpc>>

typeVars == <<schema_property, col_type>>

\* the variables of the functions that touch no warehouse state
recordVars == <<record, flatten, csv_line>>

configVars == <<connection_config, config_errors, dbsync, connection>>

pureVars == <<typeVars, recordVars, configVars>>

vars == <<syncVars, loadVars, flatVars, pureVars>>

----------------------------------------------------------------------------
(* Bounds *)

MaxMinute == 1      \* the clock runs over 0..MaxMinute
MaxBatch == 2       \* rows of a batch file
MaxOps == 2         \* operations (load_csv, query) of a run

----------------------------------------------------------------------------
(* Strings: str.lower() / str.upper() over the strings the model uses *)

Lower(s) ==
    CASE s = "A" -> "a"
      [] s = "T" -> "t"
      [] s = "VARCHAR(80)" -> "varchar(80)"
      [] s = "VARCHAR(65000)" -> "varchar(65000)"
      [] s = "LONG VARCHAR" -> "long varchar"
      [] s = "TIMESTAMP" -> "timestamp"
      [] s = "TIME" -> "time"
      [] s = "NUMERIC" -> "numeric"
      [] s = "SMALLINT" -> "smallint"
      [] s = "INT" -> "int"
      [] s = "BIGINT" -> "bigint"
      [] s = "BOOLEAN" -> "boolean"
      [] OTHER -> s

Upper(s) ==
    CASE s = "varchar(80)" -> "VARCHAR(80)"
      [] s = "varchar(65000)" -> "VARCHAR(65000)"
      [] s = "long varchar" -> "LONG VARCHAR"
      [] s = "timestamp" -> "TIMESTAMP"
      [] s = "time" -> "TIME"
      [] s = "numeric" -> "NUMERIC"
      [] s = "smallint" -> "SMALLINT"
      [] s = "int" -> "INT"
      [] s = "bigint" -> "BIGINT"
      [] s = "boolean" -> "BOOLEAN"
      [] OTHER -> s

----------------------------------------------------------------------------
(* utils.column_type: JSON-schema leaf -> warehouse column type            *)
(* A leaf is [type, format, hasMax, maximum, maxLength]; format "" and     *)
(* maxLength 0 stand for an absent key (schema_property.get(.., 0)).       *)
(* maximum is a number a * 10^18 + b * 10^9 + c written <<a, b, c>> with   *)
(* 0 <= b, c < 10^9, so that the 64-bit limits keep their width.           *)

DEFAULT_VARCHAR_LENGTH == 80
LONG_VARCHAR_LENGTH == 65000

Int16Max == <<0, 0, 32767>>
Int32Max == <<0, 2, 147483647>>
Int64Max == <<9, 223372036, 854775807>>

\* a slip: < where the code has <=
BigLess(x, y) ==
    \/ x[1] < y[1]
    \/ x[1] = y[1] /\ x[2] < y[2]
    \/ x[1] = y[1] /\ x[2] = y[2] /\ x[3] < y[3]

BigLeq(x, y) ==
    \/ x[1] < y[1]
    \/ x[1] = y[1] /\ x[2] < y[2]
    \/ x[1] = y[1] /\ x[2] = y[2] /\ x[3] <= y[3]

Leaf(t, f, hm, m, ml) ==
    [type |-> t, format |-> f, hasMax |-> hm, maximum |-> m, maxLength |-> ml]

\* a slip: the formats tested before object / array
col_type_of_format_first(p) ==
    IF p.format = "date-time" THEN "timestamp"
    ELSE IF p.format = "time" THEN "time"
    ELSE IF "object" \in p.type \/ "array" \in p.type
    THEN IF p.maxLength > LONG_VARCHAR_LENGTH THEN "long varchar" ELSE "varchar"
    ELSE IF "number" \in p.type THEN "numeric"
    ELSE IF "integer" \in p.type /\ "string" \in p.type THEN "varchar"
    ELSE IF "integer" \in p.type
         THEN IF p.hasMax
              THEN IF BigLeq(p.maximum, Int16Max) THEN "smallint"
                   ELSE IF BigLeq(p.maximum, Int32Max) THEN "int"
                   ELSE IF BigLeq(p.maximum, Int64Max) THEN "bigint"
                   ELSE "varchar"
              ELSE "int"
    ELSE IF "boolean" \in p.type THEN "boolean"
    ELSE "varchar"

\* col_type and varchar_length as set by the if / elif chain
col_type_of(p) ==
    IF "object" \in p.type \/ "array" \in p.type
    THEN IF p.maxLength > LONG_VARCHAR_LENGTH THEN "long varchar" ELSE "varchar"
    ELSE IF p.format = "date-time" THEN "timestamp"
    ELSE IF p.format = "time" THEN "time"
    ELSE IF "number" \in p.type THEN "numeric"
    ELSE IF "integer" \in p.type /\ "string" \in p.type THEN "varchar"
    ELSE IF "integer" \in p.type
         THEN IF p.hasMax
              THEN IF BigLeq(p.maximum, Int16Max) THEN "smallint"
                   ELSE IF BigLeq(p.maximum, Int32Max) THEN "int"
                   ELSE IF BigLeq(p.maximum, Int64Max) THEN "bigint"
                   ELSE "varchar"
              ELSE "int"
    ELSE IF "boolean" \in p.type THEN "boolean"
    ELSE "varchar"

varchar_length_of(p) ==
    IF "object" \in p.type \/ "array" \in p.type
    THEN LONG_VARCHAR_LENGTH
    ELSE IF p.maxLength > DEFAULT_VARCHAR_LENGTH THEN LONG_VARCHAR_LENGTH
         ELSE DEFAULT_VARCHAR_LENGTH

column_type(p) ==
    IF col_type_of(p) = "varchar"
    THEN IF varchar_length_of(p) = DEFAULT_VARCHAR_LENGTH
         THEN "varchar(80)" ELSE "varchar(65000)"
    ELSE col_type_of(p)

----------------------------------------------------------------------------
(* Identifiers.  A SQL identifier is a sequence: <<"a">> is "a" and        *)
(* <<"a", 3>> is "a_<timestamp of minute 3>".                              *)

safe_column_name(name) == <<Lower(name)>>

column_clause(name, p) ==
    [column_name |-> safe_column_name(name), data_type |-> column_type(p)]

LowerIdent(id) == [i \in DOMAIN id |-> IF i = 1 THEN Lower(id[i]) ELSE id[i]]

\* "{}_{}".format(column_name.replace('"', ''), time.strftime("%Y%m%d_%H%M"))
VersionedName(id, minute) == Append(id, minute)

----------------------------------------------------------------------------
(* The flattened schemas the synchroniser is run with: self.flatten_schema, *)
(* a dict ordered by flat column name (flatten_schema sorts its items).     *)
(* Two names of one schema differ also in lower case, and a schema has at   *)
(* least one column.                                                        *)

ColNames == {"A", "b"}

\* the order of sorted(): 'A' < 'b' < 'id' < 'v'
NameRank(n) == CASE n = "A" -> 1 [] n = "b" -> 2 [] n = "id" -> 3 [] n = "v" -> 4

LeafString   == Leaf({"null", "string"}, "", FALSE, <<0, 0, 0>>, 0)
LeafInteger  == Leaf({"null", "integer"}, "", FALSE, <<0, 0, 0>>, 0)

SyncLeaves == {LeafString, LeafInteger}

SyncSchemas ==
    UNION { [S -> SyncLeaves] :
            S \in { T \in SUBSET ColNames :
                      /\ T # {}
                      /\ \A x, y \in T : Lower(x) = Lower(y) => x = y } }

RECURSIVE SortedNames(_)
SortedNames(S) ==
    IF S = {} THEN <<>>
    ELSE LET m == CHOOSE x \in S : \A y \in S : NameRank(x) <= NameRank(y)
         IN <<m>> \o SortedNames(S \ {m})

\* self.flatten_schema.items()
Items(fs) == SortedNames(DOMAIN fs)

\* stream_schema_message['key_properties'] as the streams of the model set it
KeyChoices(fs) == {<<>>} \cup { <<n>> : n \in DOMAIN fs }

primary_column_names(kp) == [i \in DOMAIN kp |-> safe_column_name(kp[i])]

----------------------------------------------------------------------------
(* The warehouse, as far as the statements of db_sync.py use it.           *)
(* db == [tables, columns, grantLog]; a renamed column keeps its type.      *)

StreamTable == "T"                   \* stream_name_to_dict(stream)['table_name']
TargetTable == Lower(StreamTable)    \* table_name(stream, without_schema=True), unquoted
OtherTable  == "other"               \* another table of the same schema

HasColumn(db, id) == \E c \in db.columns : c.column_name = id

NewColumns(clauses) ==
    { [column_name |-> clauses[i].column_name,
       data_type |-> clauses[i].data_type] : i \in DOMAIN clauses }

DistinctNames(clauses) ==
    \A i, j \in DOMAIN clauses :
        clauses[i].column_name = clauses[j].column_name => i = j

\* One statement run by cur.execute: the new warehouse and whether it succeeded.
ExecStmt(db, st) ==
    CASE st.op = "CREATE TABLE" ->
           IF st.table \in db.tables
           THEN [db |-> db, ok |-> TRUE]                  \* IF NOT EXISTS
           ELSE IF st.cols = <<>> \/ ~DistinctNames(st.cols)
           THEN [db |-> db, ok |-> FALSE]
           ELSE [db |-> [db EXCEPT !.tables = @ \cup {st.table},
                                   !.columns = NewColumns(st.cols)],
                 ok |-> TRUE]
      [] st.op = "GRANT SELECT" ->
           [db |-> [db EXCEPT !.grantLog = Append(@, st.grantee)], ok |-> TRUE]
      [] st.op = "ADD COLUMN" ->
           IF st.table \notin db.tables \/ HasColumn(db, st.column.column_name)
           THEN [db |-> db, ok |-> FALSE]
           ELSE [db |-> [db EXCEPT !.columns = @ \cup NewColumns(<<st.column>>)],
                 ok |-> TRUE]
      [] st.op = "RENAME COLUMN" ->
           IF st.table \notin db.tables \/ ~HasColumn(db, st.column_name)
              \/ HasColumn(db, st.to)
           THEN [db |-> db, ok |-> FALSE]
           ELSE [db |-> [db EXCEPT !.columns =
                            { IF c.column_name = st.column_name
                              THEN [c EXCEPT !.column_name = st.to] ELSE c : c \in @ }],
                 ok |-> TRUE]
      [] st.op = "DROP COLUMN" ->
           IF st.table \notin db.tables \/ ~HasColumn(db, st.column_name)
           THEN [db |-> db, ok |-> FALSE]
           ELSE [db |-> [db EXCEPT !.columns =
                            { c \in @ : c.column_name # st.column_name }],
                 ok |-> TRUE]

\* self.query(..) once per statement, in order; the first failure raises.
RECURSIVE RunStmts(_, _, _)
RunStmts(db, stmts, issued) ==
    IF stmts = <<>> THEN [db |-> db, issued |-> issued, raised |-> FALSE]
    ELSE LET r == ExecStmt(db, Head(stmts))
         IN IF r.ok
            THEN RunStmts(r.db, Tail(stmts), Append(issued, Head(stmts)))
            ELSE [db |-> db, issued |-> Append(issued, Head(stmts)), raised |-> TRUE]

\* v_catalog.columns reports a data type in lower or in upper case
Reported(upper, dt) == IF upper THEN Upper(dt) ELSE dt

get_tables(db) == db.tables

get_table_columns(db, upper) ==
    IF TargetTable \in db.tables
    THEN { [column_name |-> c.column_name,
            data_type |-> Reported(upper, c.data_type)] : c \in db.columns }
    ELSE {}

----------------------------------------------------------------------------
(* DbSync: the statements it builds *)

\* a slip: the PRIMARY KEY clause left out of a temporary table
create_table_query_bare_temp(fs, kp, table_name, is_temporary) ==
    [op |-> "CREATE TABLE",
     temporary |-> is_temporary,
     table |-> table_name,
     cols |-> [i \in DOMAIN Items(fs) |-> column_clause(Items(fs)[i], fs[Items(fs)[i]])],
     primary_key |-> IF Len(kp) > 0 /\ ~is_temporary
                     THEN primary_column_names(kp) ELSE <<>>,
     on_commit_preserve_rows |-> is_temporary]

create_table_query(fs, kp, table_name, is_temporary) ==
    [op |-> "CREATE TABLE",
     temporary |-> is_temporary,
     table |-> table_name,
     cols |-> [i \in DOMAIN Items(fs) |-> column_clause(Items(fs)[i], fs[Items(fs)[i]])],
     primary_key |-> IF Len(kp) > 0 THEN primary_column_names(kp) ELSE <<>>,
     on_commit_preserve_rows |-> is_temporary]

grant_select_on_all_tables_in_schema(grantee) ==
    [op |-> "GRANT SELECT", grantee |-> grantee]

\* grantees is a list, a str or anything else (None)
grant_privilege(g) ==
    IF g.kind = "list"
    THEN [i \in DOMAIN g.roles |-> grant_select_on_all_tables_in_schema(g.roles[i])]
    ELSE IF g.kind = "str"
    THEN <<grant_select_on_all_tables_in_schema(g.role)>>
    ELSE <<>>

add_column(column) ==
    [op |-> "ADD COLUMN", table |-> TargetTable, column |-> column]

\* a slip: the old column dropped instead of renamed
version_column_drops(column_name, minute) ==
    [op |-> "DROP COLUMN", table |-> TargetTable, column_name |-> column_name]

version_column(column_name, minute) ==
    [op |-> "RENAME COLUMN", table |-> TargetTable, column_name |-> column_name,
     to |-> VersionedName(column_name, minute)]

drop_column(column_name) ==
    [op |-> "DROP COLUMN", table |-> TargetTable, column_name |-> column_name]

\* columns_dict = {column['column_name'].lower(): column for column in columns}
columns_dict(cols) ==
    [k \in { LowerIdent(c.column_name) : c \in cols } |->
        CHOOSE c \in cols : LowerIdent(c.column_name) = k]

RECURSIVE FilterSeq(_, _)
FilterSeq(s, keep) ==
    IF s = <<>> THEN <<>>
    ELSE (IF Head(s) \in keep THEN <<Head(s)>> ELSE <<>>) \o FilterSeq(Tail(s), keep)

columns_to_add(fs, cd) ==
    LET names == FilterSeq(Items(fs), { n \in DOMAIN fs : <<Lower(n)>> \notin DOMAIN cd })
    IN [i \in DOMAIN names |-> column_clause(names[i], fs[names[i]])]

TypeDiffers(fs, cd, n) ==
    /\ <<Lower(n)>> \in DOMAIN cd
    /\ Lower(cd[<<Lower(n)>>].data_type) # Lower(column_type(fs[n]))

columns_to_replace(fs, cd) ==
    LET names == FilterSeq(Items(fs), { n \in DOMAIN fs : TypeDiffers(fs, cd, n) })
    IN [i \in DOMAIN names |->
          [column_name |-> safe_column_name(names[i]),
           column |-> column_clause(names[i], fs[names[i]])]]

RECURSIVE ReplaceStmts(_, _)
ReplaceStmts(reps, minute) ==
    IF reps = <<>> THEN <<>>
    ELSE <<version_column(Head(reps).column_name, minute), add_column(Head(reps).column)>>
         \o ReplaceStmts(Tail(reps), minute)

\* the ALTER TABLE statements update_columns issues, in its order
update_columns_plan(fs, cd, minute) ==
    LET adds == columns_to_add(fs, cd)
    IN [i \in DOMAIN adds |-> add_column(adds[i])]
       \o ReplaceStmts(columns_to_replace(fs, cd), minute)

update_columns(db, upper, fs, minute) ==
    RunStmts(db, update_columns_plan(fs, columns_dict(get_table_columns(db, upper)), minute),
             <<>>)

\* a slip: the catalog's names compared with the stream's name as it is written
found_tables_raw(db) == { t \in get_tables(db) : t = StreamTable }

found_tables(db) == { t \in get_tables(db) : Lower(t) = TargetTable }

sync_table(db, upper, fs, kp, g, minute) ==
    IF found_tables(db) = {}
    THEN [branch |-> "create"] @@
         RunStmts(db, <<create_table_query(fs, kp, TargetTable, FALSE)>>
                      \o grant_privilege(g), <<>>)
    ELSE [branch |-> "reconcile"] @@ update_columns(db, upper, fs, minute)

----------------------------------------------------------------------------
(* The synchroniser as a state machine *)

\* the loader at rest, nothing loaded
FlatIdle ==
    /\ schema = <<>>
    /\ max_level = 0
    /\ flat = <<>>
    /\ fpc = "idle"

TypeIdle ==
    /\ schema_property = <<>>
    /\ col_type = "unset"

RecordIdle ==
    /\ record = <<>>
    /\ flatten = [done |-> FALSE, items |-> <<>>]
    /\ csv_line = [done |-> FALSE, text |-> <<>>]

ConfigIdle ==
    /\ connection_config = <<>>
    /\ config_errors = <<>>
    /\ dbsync = "idle"
    /\ connection = [done |-> FALSE, raised |-> FALSE, sslmode |-> "unset"]

PureIdle == TypeIdle /\ RecordIdle /\ ConfigIdle

LoadIdle ==
    /\ key_properties = <<>>
    /\ perm = <<>>
    /\ file = <<>>
    /\ attempt = 0
    /\ base = <<>>
    /\ firstFailed = "no"
    /\ pc = "idle"
    /\ conns = {}
    /\ connLog = <<>>
    /\ myConn = 0
    /\ temps = {}
    /\ myTemp = <<>>
    /\ tempLog = <<>>
    /\ inserts = 0
    /\ updates = 0
    /\ outcome = "none"
    /\ opsDone = 0

NoCall == [op |-> "none", seq |-> 0, schema |-> <<>>, branch |-> "none",
           issued |-> <<>>, raised |-> FALSE]

Db == [tables |-> tables, columns |-> columns, grantLog |-> grantLog]

GranteeChoices ==
    { [kind |-> "none"], [kind |-> "str", role |-> "r1"],
      [kind |-> "list", roles |-> <<"r1", "r2">>] }

InitSync ==
    /\ tables = {OtherTable}
    /\ columns = {}
    /\ now = 0
    /\ grantees \in GranteeChoices
    /\ call = NoCall
    /\ createRuns = 0
    /\ grantLog = <<>>
    /\ LoadIdle
    /\ FlatIdle
    /\ PureIdle

Record(op, fs, r, branch) ==
    /\ tables' = r.db.tables
    /\ columns' = r.db.columns
    /\ grantLog' = r.db.grantLog
    /\ call' = [op |-> op, seq |-> 1 - call.seq, schema |-> fs, branch |-> branch,
                issued |-> r.issued, raised |-> r.raised]
    /\ createRuns' = IF branch = "create" THEN createRuns + 1 ELSE createRuns
    /\ UNCHANGED <<now, grantees, loadVars, flatVars, pureVars>>

\* DbSync(config, schema_message).sync_table()
SyncTable ==
    \E fs \in SyncSchemas : \E kp \in KeyChoices(fs) : \E upper \in BOOLEAN :
        /\ TargetTable \in tables => kp = <<>>   \* read on the create branch only
        /\ \E r \in {sync_table(Db, upper, fs, kp, grantees, now)} :
              Record("sync_table", fs, r, r.branch)

\* DbSync(config, schema_message).update_columns()
UpdateColumns ==
    \E fs \in SyncSchemas : \E upper \in BOOLEAN :
        \E r \in {update_columns(Db, upper, fs, now)} :
            Record("update_columns", fs, r, "reconcile")

\* a minute passes
Tick ==
    /\ now < MaxMinute
    /\ now' = now + 1
    /\ UNCHANGED <<tables, columns, grantees, call,
                   createRuns, grantLog, loadVars, flatVars, pureVars>>

NextSync == SyncTable \/ UpdateColumns \/ Tick

SpecSync == InitSync /\ [][NextSync]_vars

----------------------------------------------------------------------------
(* Claims about the table synchroniser *)

IsCallStep == call'.seq # call.seq

AlterOps == {"ADD COLUMN", "RENAME COLUMN", "DROP COLUMN"}

IssuedOps(c) == { c.issued[i].op : i \in DOMAIN c.issued }

\* C1: no sync_table / update_columns call issues DROP COLUMN or removes a
\* column: every column of the table before a step is there after it, with its
\* type, under its name or under that name with a timestamp suffix, and the
\* table has at least as many columns as before.
C1_ColumnsOnlyGrow ==
    [][ /\ "DROP COLUMN" \notin IssuedOps(call')
        /\ Cardinality(columns') >= Cardinality(columns)
        /\ \A c \in columns : \E d \in columns' :
              /\ d.data_type = c.data_type
              /\ \/ d.column_name = c.column_name
                 \/ \E m \in 0..MaxMinute :
                       d.column_name = VersionedName(c.column_name, m) ]_vars

\* C1 witness: a reconcile has renamed a column and added its replacement
C1_Witness ==
    /\ call.branch = "reconcile"
    /\ "RENAME COLUMN" \in IssuedOps(call)
    /\ \E c \in columns : Len(c.column_name) = 2
    /\ ~call.raised

\* the catalog holds column n of the schema with another type than the leaf maps to
Mismatch(cols, fs, n) ==
    \E c \in cols : /\ c.column_name = safe_column_name(n)
                    /\ Lower(c.data_type) # Lower(column_type(fs[n]))

\* C2: when update_columns finds a column of the schema in the catalog with a
\* differing type, it issues the rename to <name>_<timestamp> before the add of
\* the original name with the new type, and after the call the table holds the
\* renamed column with the old type and the original name with the new type.
C2_VersionThenAdd ==
    [][ IsCallStep /\ TargetTable \in tables =>
        \A n \in DOMAIN call'.schema :
           Mismatch(columns, call'.schema, n) =>
              LET id  == safe_column_name(n)
                  old == CHOOSE c \in columns : c.column_name = id
                  new == column_clause(n, call'.schema[n])
              IN /\ \E i, j \in DOMAIN call'.issued :
                       /\ i < j
                       /\ call'.issued[i] = version_column(id, now)
                       /\ call'.issued[j] = add_column(new)
                 /\ [column_name |-> VersionedName(id, now),
                     data_type |-> old.data_type] \in columns'
                 /\ new \in columns' ]_vars

C4_SecondRunEmptyPlan ==
    [][ IsCallStep /\ call.op # "none" /\ call'.schema = call.schema
        /\ TargetTable \in tables =>
           /\ call'.issued = <<>>
           /\ columns' = columns ]_vars

\* the same, for a run that follows a run that returned
C4_SecondRunEmptyPlanAfterReturn ==
    [][ IsCallStep /\ call.op # "none" /\ call'.schema = call.schema
        /\ TargetTable \in tables /\ ~call.raised =>
           /\ call'.issued = <<>>
           /\ columns' = columns ]_vars

\* the statement of C2 for the calls that return
C2_VersionThenAddWhenReturned ==
    [][ IsCallStep /\ TargetTable \in tables /\ ~call'.raised =>
        \A n \in DOMAIN call'.schema :
           Mismatch(columns, call'.schema, n) =>
              LET id  == safe_column_name(n)
                  old == CHOOSE c \in columns : c.column_name = id
                  new == column_clause(n, call'.schema[n])
              IN /\ \E i, j \in DOMAIN call'.issued :
                       /\ i < j
                       /\ call'.issued[i] = version_column(id, now)
                       /\ call'.issued[j] = add_column(new)
                 /\ [column_name |-> VersionedName(id, now),
                     data_type |-> old.data_type] \in columns'
                 /\ new \in columns' ]_vars

----------------------------------------------------------------------------
(* The staged merge loader: the stream of the model has the columns id and *)
(* v; a row is [id, v]; a table or a batch is a bag of rows, row -> count. *)

Null == "NULL"
Ids  == {"k1", "k2"}
Vals == {"x", "y"}

LoadSchema == [id |-> LeafInteger, v |-> LeafString]

\* the rows a batch draws from: two rows of one key, a row of another key,
\* a row without key
AllRows == { r \in [id : Ids \cup {Null}, v : Vals] : r.id = "k1" \/ r.v = "x" }

\* the row a LEFT OUTER JOIN pairs an unmatched row with
NullRow == [id |-> Null, v |-> Null]

EmptyBag == [r \in AllRows |-> 0]

RECURSIVE SumOver(_, _)
SumOver(S, b) ==
    IF S = {} THEN 0
    ELSE LET x == CHOOSE y \in S : TRUE IN b[x] + SumOver(S \ {x}, b)

BagSize(b) == SumOver(AllRows, b)

Present(b) == { r \in AllRows : b[r] > 0 }

\* the batch files: at most MaxBatch rows
Files == { b \in [AllRows -> 0..MaxBatch] : BagSize(b) <= MaxBatch }

KeyPropertyChoices == { <<>>, <<"id">>, <<"id", "v">> }

\* self.column_names()
column_names(fs) == [i \in DOMAIN Items(fs) |-> safe_column_name(Items(fs)[i])]

\* the value of the column an identifier names
Col(row, ident) == row[ident[1]]

\* ' AND '.join(['s.{} = {}.{}'.format(c, right_table, c) for c in names])
\* (in SQL a comparison with NULL is not true)
primary_key_condition(s, t, kp) ==
    \A i \in DOMAIN primary_column_names(kp) :
        LET c == primary_column_names(kp)[i]
        IN Col(s, c) # Null /\ Col(t, c) # Null /\ Col(s, c) = Col(t, c)

\* ' AND '.join(['{}.{} is null'.format(right_table, c) for c in names])
primary_key_null_condition(t, kp) ==
    \A i \in DOMAIN primary_column_names(kp) :
        Col(t, primary_column_names(kp)[i]) = Null

\* DbSync.table_name(stream, is_temporary=True): 'tmp_' + a fresh uuid4
temp_table_name(log) == <<"tmp", Len(log) + 1>>

\* a PRIMARY KEY column is NOT NULL: the rows the table rejects
ViolatesNotNull(stmt, rows) ==
    \E r \in Present(rows) : \E i \in DOMAIN stmt.primary_key :
        Col(r, stmt.primary_key[i]) = Null

\* UPDATE t SET c = s.c, .. FROM temp s WHERE <pk>: the permanent rows that a
\* staged row matches, and the table after each took the values of a match
UpdateMatched(table, staged, kp) ==
    { t \in Present(table) :
        \E s \in Present(staged) : primary_key_condition(s, t, kp) }

UpdateChoices(table, staged, kp) ==
    { f \in [UpdateMatched(table, staged, kp) -> AllRows] :
        \A t \in DOMAIN f :
            f[t] \in Present(staged) /\ primary_key_condition(f[t], t, kp) }

SetFrom(t, s, cols) ==
    [c \in DOMAIN t |-> IF <<c>> \in { cols[i] : i \in DOMAIN cols } THEN s[c] ELSE t[c]]

update_from_temp_table(table, staged, kp, f) ==
    LET moved == [r \in AllRows |->
                    IF r \in DOMAIN f /\ SetFrom(r, f[r], column_names(LoadSchema)) # r
                    THEN table[r] ELSE 0]
        landed(r) == { t \in DOMAIN f : SetFrom(t, f[t], column_names(LoadSchema)) = r
                                        /\ t # r }
    IN [table |-> [r \in AllRows |-> table[r] - moved[r] + SumOver(landed(r), table)],
        affected |-> SumOver(DOMAIN f, table)]

\* SELECT s.* FROM temp s LEFT OUTER JOIN t ON <pk> WHERE <t.pk is null>:
\* how many rows the join yields for one staged row s
JoinedRows(s, table, kp) ==
    LET m == { t \in Present(table) : primary_key_condition(s, t, kp) }
    IN IF m = {}
       THEN IF primary_key_null_condition(NullRow, kp) THEN 1 ELSE 0
       ELSE SumOver({ t \in m : primary_key_null_condition(t, kp) }, table)

\* a slip: the INSERT without its anti-join, every staged row inserted
insert_from_temp_table_all(table, staged, kp) ==
    [table |-> [r \in AllRows |-> table[r] + staged[r]],
     added |-> staged,
     affected |-> BagSize(staged)]

insert_from_temp_table(table, staged, kp) ==
    IF Len(kp) = 0
    THEN [table |-> [r \in AllRows |-> table[r] + staged[r]],
          added |-> staged,
          affected |-> BagSize(staged)]
    ELSE LET add == [r \in AllRows |-> staged[r] * JoinedRows(r, table, kp)]
         IN [table |-> [r \in AllRows |-> table[r] + add[r]],
             added |-> add,
             affected |-> BagSize(add)]

\* The warehouse answers an INSERT, UPDATE or DELETE with one row whose OUTPUT
\* column holds the count (delete_rows reads out[0]['OUTPUT']); cur.rowcount
\* is the number of rows fetched (query tests it after fetchall).
DmlResult(affected) == <<[OUTPUT |-> affected]>>

rowcount_after_fetchall(result) == Len(result)

\* a slip: the connection left open when the body raised
with_exit_on_return(open, c, raised) == IF raised THEN open ELSE open \ {c}

\* leaving `with self.open_connection() as connection`: the connection closes
with_exit(open, c, raised) == open \ {c}

----------------------------------------------------------------------------
(* load_csv and query as a state machine: one step per statement *)

SyncIdle ==
    /\ tables = {OtherTable, TargetTable}
    /\ columns = NewColumns(create_table_query(LoadSchema, <<>>, TargetTable, FALSE).cols)
    /\ now = 0
    /\ grantees = [kind |-> "none"]
    /\ call = NoCall
    /\ createRuns = 0
    /\ grantLog = <<>>

InitLoad ==
    /\ SyncIdle
    /\ FlatIdle
    /\ PureIdle
    /\ key_properties \in KeyPropertyChoices
    /\ perm = EmptyBag
    /\ file = EmptyBag
    /\ attempt = 0
    /\ base = EmptyBag
    /\ firstFailed = "no"
    /\ pc = "idle"
    /\ conns = {}
    /\ connLog = <<>>
    /\ myConn = 0
    /\ temps = {}
    /\ myTemp = <<>>
    /\ tempLog = <<>>
    /\ inserts = 0
    /\ updates = 0
    /\ outcome = "none"
    /\ opsDone = 0

\* vertica.connect(..): a new connection (of a configuration without
\* ssl == 'true'; with it open_connection raises, see conn_string)
open_connection(log) == Len(log) + 1

\* entering `with self.open_connection() as connection`
Enter(next_pc) ==
    /\ pc = "idle"
    /\ opsDone < MaxOps
    /\ myConn' = open_connection(connLog)
    /\ connLog' = Append(connLog, myConn')
    /\ conns' = conns \cup {myConn'}
    /\ pc' = next_pc

MyTemp == CHOOSE t \in temps : t.name = myTemp /\ t.conn = myConn

\* load_csv(file, ..) of a new batch file
LoadStart ==
    /\ Enter("open")
    /\ \E f \in Files : file' = f
    /\ attempt' = 1
    /\ base' = perm
    /\ firstFailed' = "no"
    /\ inserts' = 0
    /\ updates' = 0
    /\ outcome' = "running"
    /\ UNCHANGED <<pureVars, flatVars, syncVars, key_properties, perm, temps, myTemp, tempLog, opsDone>>

\* load_csv(file, ..) again, of the file loaded last
LoadRetry ==
    /\ attempt >= 1
    /\ Enter("open")
    /\ attempt' = attempt + 1
    /\ inserts' = 0
    /\ updates' = 0
    /\ outcome' = "running"
    /\ UNCHANGED <<pureVars, flatVars, syncVars, key_properties, perm, file, base, firstFailed, temps,
                   myTemp, tempLog, opsDone>>

\* cur.execute(self.create_table_query(table_name=temp_table, is_temporary=True))
CreateTemp ==
    /\ pc = "open"
    /\ myTemp' = temp_table_name(tempLog)
    /\ tempLog' = Append(tempLog, myTemp')
    /\ temps' = temps \cup
          {[name |-> myTemp', conn |-> myConn, rows |-> EmptyBag,
            stmt |-> create_table_query(LoadSchema, key_properties, myTemp', TRUE)]}
    /\ pc' = "temp"
    /\ UNCHANGED <<pureVars, flatVars, syncVars, key_properties, perm, file, attempt, base, firstFailed,
                   conns, connLog, myConn, inserts, updates, outcome, opsDone>>

\* cur.copy(copy_sql, ..) with ABORT ON ERROR: every row or none
Copy ==
    /\ pc = "temp"
    /\ IF ViolatesNotNull(MyTemp.stmt, file)
       THEN /\ pc' = "raise"
            /\ outcome' = "copy"
            /\ temps' = temps
       ELSE /\ pc' = "copied"
            /\ outcome' = outcome
            /\ temps' = (temps \ {MyTemp}) \cup {[MyTemp EXCEPT !.rows = file]}
    /\ UNCHANGED <<pureVars, flatVars, syncVars, key_properties, perm, file, attempt, base, firstFailed,
                   conns, connLog, myConn, myTemp, tempLog, inserts, updates, opsDone>>

\* cur.execute(self.update_from_temp_table(temp_table)); updates = cur.rowcount
Update ==
    /\ pc = "copied"
    /\ Len(key_properties) > 0
    /\ \E f \in UpdateChoices(perm, MyTemp.rows, key_properties) :
         \E r \in {update_from_temp_table(perm, MyTemp.rows, key_properties, f)} :
            /\ perm' = r.table
            /\ updates' = rowcount_after_fetchall(DmlResult(r.affected))
    /\ pc' = "updated"
    /\ UNCHANGED <<pureVars, flatVars, syncVars, key_properties, file, attempt, base, firstFailed, conns,
                   connLog, myConn, temps, myTemp, tempLog, inserts, outcome, opsDone>>

\* cur.execute(self.insert_from_temp_table(temp_table)); inserts = cur.rowcount
Insert ==
    /\ \/ pc = "updated"
       \/ pc = "copied" /\ Len(key_properties) = 0
    /\ \E r \in {insert_from_temp_table(perm, MyTemp.rows, key_properties)} :
         IF ViolatesNotNull(create_table_query(LoadSchema, key_properties,
                                               TargetTable, FALSE), r.added)
         THEN /\ pc' = "raise"
              /\ outcome' = "insert"
              /\ UNCHANGED <<perm, inserts>>
         ELSE /\ pc' = "inserted"
              /\ outcome' = outcome
              /\ perm' = r.table
              /\ inserts' = rowcount_after_fetchall(DmlResult(r.affected))
    /\ UNCHANGED <<pureVars, flatVars, syncVars, key_properties, file, attempt, base, firstFailed, conns,
                   connLog, myConn, temps, myTemp, tempLog, updates, opsDone>>

\* the statement about to run raises (an SQL error, the connection lost)
NextStatement ==
    CASE pc = "open" -> "create"
      [] pc = "temp" -> "copy"
      [] pc = "copied" -> IF Len(key_properties) > 0 THEN "update" ELSE "insert"
      [] pc = "updated" -> "insert"

Fail ==
    /\ pc \in {"open", "temp", "copied", "updated"}
    /\ pc' = "raise"
    /\ outcome' = NextStatement
    /\ UNCHANGED <<pureVars, flatVars, syncVars, key_properties, perm, file, attempt, base, firstFailed,
                   conns, connLog, myConn, temps, myTemp, tempLog, inserts, updates,
                   opsDone>>

\* load_csv returns or raises: the with block is left
LoadExit ==
    /\ pc \in {"inserted", "raise"}
    /\ conns' = with_exit(conns, myConn, pc = "raise")
    /\ temps' = { t \in temps : t.conn \in conns' }
    /\ firstFailed' = IF attempt = 1 /\ pc = "raise" THEN outcome ELSE firstFailed
    /\ outcome' = IF pc = "inserted" THEN "done" ELSE outcome
    /\ pc' = "idle"
    /\ opsDone' = opsDone + 1
    /\ UNCHANGED <<pureVars, flatVars, syncVars, key_properties, perm, file, attempt, base, connLog,
                   myConn, myTemp, tempLog, inserts, updates>>

\* query(..): with self.open_connection() .. cur.execute(query)
QueryStart ==
    /\ Enter("q_open")
    /\ UNCHANGED <<pureVars, flatVars, syncVars, key_properties, perm, file, attempt, base, firstFailed,
                   temps, myTemp, tempLog, inserts, updates, outcome, opsDone>>

\* cur.execute returns its rows, or raises
QueryRun ==
    /\ pc = "q_open"
    /\ pc' \in {"q_done", "q_raise"}
    /\ UNCHANGED <<pureVars, flatVars, syncVars, key_properties, perm, file, attempt, base, firstFailed,
                   conns, connLog, myConn, temps, myTemp, tempLog, inserts, updates,
                   outcome, opsDone>>

QueryExit ==
    /\ pc \in {"q_done", "q_raise"}
    /\ conns' = with_exit(conns, myConn, pc = "q_raise")
    /\ temps' = { t \in temps : t.conn \in conns' }
    /\ pc' = "idle"
    /\ opsDone' = opsDone + 1
    /\ UNCHANGED <<pureVars, flatVars, syncVars, key_properties, perm, file, attempt, base, firstFailed,
                   connLog, myConn, myTemp, tempLog, inserts, updates, outcome>>

NextLoad ==
    \/ LoadStart \/ LoadRetry \/ CreateTemp \/ Copy \/ Update \/ Insert \/ Fail
    \/ LoadExit \/ QueryStart \/ QueryRun \/ QueryExit

SpecLoad == InitLoad /\ [][NextLoad]_vars

----------------------------------------------------------------------------
(* Claims about load_csv and query *)

\* the permanent rows an UPDATE .. FROM temp joins on primary-key equality
MatchedRows(table, staged, kp) ==
    IF Len(kp) = 0 THEN 0 ELSE SumOver(UpdateMatched(table, staged, kp), table)

\* the staged rows with no primary-key match in the permanent table
UnmatchedRows(table, staged, kp) ==
    IF Len(kp) = 0
    THEN BagSize(staged)
    ELSE BagSize([r \in AllRows |-> staged[r] * JoinedRows(r, table, kp)])

\* C5: a load that ran to its end reports updates = the permanent rows
\* matched on primary-key equality (0 when no key is configured) and
\* inserts = the staged rows with no match (all N rows when no key is
\* configured)
C5_ReportedCounts ==
    (pc = "inserted" /\ attempt = 1) =>
        /\ updates = MatchedRows(base, file, key_properties)
        /\ inserts = UnmatchedRows(base, file, key_properties)

\* what one uninterrupted load of `staged` can leave in `table`
SingleLoadResults(table, staged, kp) ==
    { insert_from_temp_table(
          update_from_temp_table(table, staged, kp, f).table, staged, kp).table :
        f \in UpdateChoices(table, staged, kp) }

RetryReturned ==
    /\ pc = "idle"
    /\ attempt = 2
    /\ outcome = "done"
    /\ Len(key_properties) > 0
    /\ firstFailed \in {"no", "insert"}

\* C6: with primary keys configured, after a load that completed or that
\* failed between its UPDATE and the end of its INSERT, a second load of the
\* same batch leaves the permanent table with the contents one
\* uninterrupted load of the batch produces
C6_RetrySafe ==
    RetryReturned => perm \in SingleLoadResults(base, file, key_properties)

KeysDistinct(staged, kp) ==
    \A r1, r2 \in Present(staged) :
        /\ staged[r1] = 1
        /\ primary_key_condition(r1, r2, kp) => r1 = r2

\* the same, for a batch whose primary-key values are pairwise distinct
C6_RetrySafeDistinctKeys ==
    (RetryReturned /\ KeysDistinct(file, key_properties))
        => perm \in SingleLoadResults(base, file, key_properties)

\* two rows with the same values in every primary-key column
SameKey(r1, r2, kp) ==
    \A i \in DOMAIN primary_column_names(kp) :
        Col(r1, primary_column_names(kp)[i]) = Col(r2, primary_column_names(kp)[i])

\* no two rows of the table share a primary-key value
UniqueKeys(table, kp) ==
    \A r1, r2 \in Present(table) :
        /\ table[r1] = 1
        /\ SameKey(r1, r2, kp) => r1 = r2

NonNullKeys(staged, kp) ==
    \A r \in Present(staged) : \A i \in DOMAIN primary_column_names(kp) :
        Col(r, primary_column_names(kp)[i]) # Null

\* a first load of a batch with pairwise distinct, non-null keys into a
\* table with unique keys has run its UPDATE and its INSERT
KeyedLoadRan ==
    /\ pc = "inserted"
    /\ attempt = 1
    /\ Len(key_properties) > 0
    /\ UniqueKeys(base, key_properties)
    /\ KeysDistinct(file, key_properties)
    /\ NonNullKeys(file, key_properties)

\* C19: with primary keys configured, a permanent table with unique keys and
\* a batch with pairwise distinct, non-null keys, after the UPDATE and the
\* INSERT no two permanent rows share a key, every staged row is in the table
\* exactly once with the staged values, and the rows whose key is not in the
\* batch are as they were
C19_KeysStayUnique ==
    KeyedLoadRan =>
        /\ UniqueKeys(perm, key_properties)
        /\ \A s \in Present(file) : perm[s] = 1
        /\ \A r \in AllRows :
              (\A s \in Present(file) : ~SameKey(r, s, key_properties))
                  => perm[r] = base[r]

\* one staged row replaced the values of a permanent row, another was new
C19_Witness ==
    /\ KeyedLoadRan
    /\ \E s \in Present(file) : \E t \in Present(base) :
          SameKey(s, t, key_properties) /\ s # t
    /\ \E s \in Present(file) : \A t \in Present(base) :
          ~SameKey(s, t, key_properties)

PermanentCreate ==
    create_table_query(LoadSchema, key_properties, TargetTable, FALSE)

Distinct(seq) ==
    \A i, j \in DOMAIN seq : seq[i] = seq[j] => i = j

\* C7 as stated: the staging table has a fresh name, the permanent table's
\* columns, is TEMPORARY with ON COMMIT PRESERVE ROWS, and carries no
\* primary-key constraint
C7_StagingTableNoKey ==
    /\ Distinct(tempLog)
    /\ \A t \in temps :
         /\ t.stmt.temporary
         /\ t.stmt.on_commit_preserve_rows
         /\ t.stmt.table = t.name
         /\ t.stmt.cols = PermanentCreate.cols
         /\ t.stmt.primary_key = <<>>

\* C7 as the code has it: the staging table has a fresh name, the permanent
\* table's columns, is TEMPORARY with ON COMMIT PRESERVE ROWS, and carries
\* the permanent table's PRIMARY KEY clause (none only when key_properties
\* is empty)
C7_StagingTable ==
    /\ Distinct(tempLog)
    /\ \A t \in temps :
         /\ t.stmt.temporary
         /\ t.stmt.on_commit_preserve_rows
         /\ t.stmt.table = t.name
         /\ t.stmt.table # TargetTable
         /\ t.stmt.cols = PermanentCreate.cols
         /\ t.stmt.primary_key = PermanentCreate.primary_key
         /\ Len(key_properties) > 0 <=> t.stmt.primary_key # <<>>

C7_Witness ==
    /\ Len(tempLog) >= 2
    /\ Len(key_properties) > 0
    /\ \E t \in temps : t.rows # EmptyBag

\* C8: each operation opens a connection of its own; after it returns or
\* raises none is open; no connection serves two operations
C8_ConnectionReleased ==
    /\ pc = "idle" => conns = {}
    /\ pc # "idle" => conns = {myConn} /\ myConn = connLog[Len(connLog)]
    /\ Distinct(connLog)
    /\ Len(connLog) = opsDone + (IF pc = "idle" THEN 0 ELSE 1)
    /\ \A t \in temps : t.conn \in conns

C8_Witness ==
    /\ pc = "idle"
    /\ opsDone >= 2
    /\ attempt = 2
    /\ firstFailed = "insert"
    /\ outcome = "copy"

----------------------------------------------------------------------------
(* utils.flatten_key and utils.flatten_schema.  A name is a sequence of
   characters, a property path a sequence of names. *)

MaxLevel == 2

NameCeiling == 63

Sep == <<"_", "_">>

CharUpper(c) ==
    CASE c = "a" -> "A" [] c = "b" -> "B" [] c = "c" -> "C" [] OTHER -> c

CharLower(c) ==
    CASE c = "A" -> "a" [] c = "B" -> "b" [] c = "C" -> "c" [] OTHER -> c

IsLowerLetter(c) == c \in {"a", "b", "c"}

\* code point order of the characters in use
CharRank(c) ==
    CASE c = "A" -> 1 [] c = "B" -> 2 [] c = "C" -> 3 [] c = "_" -> 4
      [] c = "a" -> 5 [] c = "b" -> 6 [] c = "c" -> 7

RECURSIVE Join(_)
\* sep.join(names)
Join(names) ==
    IF Len(names) = 0 THEN <<>>
    ELSE IF Len(names) = 1 THEN names[1]
    ELSE names[1] \o Sep \o Join(Tail(names))

\* where the run of underscores that ends at position i begins; position 1
\* belongs to the match of ^
RunStart(str, i) ==
    CHOOSE r \in 2..i :
        /\ \A m \in r..i : str[m] = "_"
        /\ r = 2 \/ str[r - 1] # "_"

\* position i is the underscore of a match of _(.): matches are found left
\* to right and do not overlap
MatchesUnderscore(str, i) ==
    /\ i >= 2
    /\ i < Len(str)
    /\ str[i] = "_"
    /\ (i - RunStart(str, i)) % 2 = 0

\* inflection.camelize: re.sub(r"(?:^|_)(.)", lambda m: m.group(1).upper(), s)
camelize(str) ==
    LET out == [i \in DOMAIN str |->
                  IF i = 1 THEN CharUpper(str[1])
                  ELSE IF MatchesUnderscore(str, i) THEN ""
                  ELSE IF MatchesUnderscore(str, i - 1) THEN CharUpper(str[i])
                  ELSE str[i]]
    IN SelectSeq(out, LAMBDA c : c # "")

\* re.sub(r'[a-z]', '', s)
StripLower(str) == SelectSeq(str, LAMBDA c : ~IsLowerLetter(c))

LowerStr(str) == [i \in DOMAIN str |-> CharLower(str[i])]

\* the abbreviation one pass of the while loop puts in place of a name
Reduced(name) ==
    LET reduced_key == StripLower(camelize(name))
    IN LowerStr(IF Len(reduced_key) > 1
                THEN reduced_key
                ELSE SubSeq(name, 1, IF Len(name) < 3 THEN Len(name) ELSE 3))

RECURSIVE Reduce(_, _)
Reduce(inflected_key, reducer_index) ==
    IF Len(Join(inflected_key)) >= NameCeiling /\ reducer_index <= Len(inflected_key)
    THEN Reduce([inflected_key EXCEPT
                    ![reducer_index] = Reduced(inflected_key[reducer_index])],
                reducer_index + 1)
    ELSE inflected_key


flatten_key(k, parent_key) == Join(Reduce(Append(parent_key, k), 1))

----------------------------------------------------------------------------
(* SourceSchemas.  A property schema is
     [hasType, type, hasProps, props, alt]:
   'type' (a set of type names) when hasType; 'properties' (a sequence of
   [key, val], in the dict's order) when hasProps; a schema without 'type'
   is a dict whose first value is a list of alternatives, alt the 'type' of
   the first one ("none": the dict is empty). *)

Typed(types) ==
    [hasType |-> TRUE, type |-> types, hasProps |-> FALSE, props |-> <<>>,
     alt |-> "none"]

Object(properties) ==
    [hasType |-> TRUE, type |-> {"null", "object"}, hasProps |-> TRUE,
     props |-> properties, alt |-> "none"]

Alternatives(first_type) ==
    [hasType |-> FALSE, type |-> {}, hasProps |-> FALSE, props |-> <<>>,
     alt |-> first_type]

Root(properties) ==
    [hasType |-> TRUE, type |-> {"object"}, hasProps |-> TRUE,
     props |-> properties, alt |-> "none"]

Rep(c, n) == [i \in 1..n |-> c]

KeyA == <<"a">>
KeyB == <<"b">>
KeyAB == <<"a", "_", "_", "b">>
KeyLong1 == <<"a", "_", "b">> \o Rep("c", 60)
KeyLong2 == <<"a", "_", "b">> \o Rep("b", 60)

\* x < y for Python strings: at the first position where they differ x has
\* ended or has the smaller character
LexLess(x, y) ==
    \E i \in 1..Len(y) :
        /\ \A j \in 1..(i - 1) : j <= Len(x) /\ x[j] = y[j]
        /\ i > Len(x) \/ CharRank(x[i]) < CharRank(y[i])

LeafSchemas ==
    { Typed({"null", "string"}), Typed({"object"}),
      Alternatives("string"), Alternatives("integer"), Alternatives("none") }

RECURSIVE PropsOver(_, _)
\* every dict over some of `keys` (a sequence) with values from `vals`
PropsOver(keys, vals) ==
    IF Len(keys) = 0 THEN {<<>>}
    ELSE LET rest == PropsOver(Tail(keys), vals)
         IN rest \cup { <<[key |-> keys[1], val |-> v]>> \o r : v \in vals, r \in rest }

InnerObjects == { Object(ps) : ps \in PropsOver(<<KeyB>>, {Typed({"null", "string"})}) }

MidObjects == { Object(ps) : ps \in PropsOver(<<KeyB>>, LeafSchemas \cup InnerObjects) }

SourceSchemas ==
    { Root(ps \o qs) :
        ps \in PropsOver(<<KeyA, KeyAB>>, LeafSchemas \cup MidObjects),
        qs \in PropsOver(<<KeyLong1, KeyLong2>>, {Typed({"null", "string"})}) }
    \cup { Typed({"object"}) }

----------------------------------------------------------------------------
(* flatten_schema(d, parent_key, sep='__', level, max_level).  The result
   is [raised, column, items, d]: the ValueError and the column it names, or
   the sorted (name, schema) items; d is the schema as the call leaves it
   (the alternatives branch writes to it). *)

Returned(sorted_items, d) ==
    [raised |-> FALSE, column |-> <<>>, items |-> sorted_items, d |-> d]

Raised(k, d) ==
    [raised |-> TRUE, column |-> k, items |-> <<>>, d |-> d]

RECURSIVE InsertSorted(_, _)
InsertSorted(sorted_items, item) ==
    IF Len(sorted_items) = 0 THEN <<item>>
    ELSE IF LexLess(item.key, sorted_items[1].key)
    THEN <<item>> \o sorted_items
    ELSE <<sorted_items[1]>> \o InsertSorted(Tail(sorted_items), item)

RECURSIVE sorted(_)
\* sorted(items, key=key_func): stable, ascending by flat name
sorted(items) ==
    IF Len(items) = 0 THEN <<>>
    ELSE InsertSorted(sorted(SubSeq(items, 1, Len(items) - 1)), items[Len(items)])

\* itertools.groupby over the sorted items: the positions that open a group
\* of more than one item
DuplicateGroups(sorted_items) ==
    { i \in 1..(Len(sorted_items) - 1) :
        /\ sorted_items[i].key = sorted_items[i + 1].key
        /\ i > 1 => sorted_items[i - 1].key # sorted_items[i].key }

Min(S) == CHOOSE x \in S : \A y \in S : x <= y

\* list(v.values())[0][0] with its 'type' set to ['null', <type>]
Widened(v) == Typed({"null", v.alt})

\* the same property after that assignment: the first alternative's type is
\* a list from now on
AfterWidening(v) == Alternatives("list")


check_duplicates(sorted_items, d) ==
    IF DuplicateGroups(sorted_items) # {}
    THEN Raised(sorted_items[Min(DuplicateGroups(sorted_items))].key, d)
    ELSE Returned(sorted_items, d)

RECURSIVE flatten_schema(_, _, _, _)
RECURSIVE flatten_properties(_, _, _, _, _, _)

\* the for loop over d['properties'].items(), from the i-th item on
flatten_properties(d, i, items, parent_key, level, max) ==
    IF i > Len(d.props) THEN Returned(items, d)
    ELSE
      LET k == d.props[i].key
          v == d.props[i].val
          new_key == flatten_key(k, parent_key)
      IN IF v.hasType
         THEN IF "object" \in v.type /\ v.hasProps /\ level < max
              THEN LET sub == flatten_schema(v, Append(parent_key, k), level + 1, max)
                       d1 == [d EXCEPT !.props[i].val = sub.d]
                   IN IF sub.raised
                      THEN Raised(sub.column, d1)
                      ELSE flatten_properties(d1, i + 1, items \o sub.items,
                                              parent_key, level, max)
              ELSE flatten_properties(d, i + 1,
                                      Append(items, [key |-> new_key, val |-> v]),
                                      parent_key, level, max)
         ELSE IF v.alt \in {"string", "array", "object"}
              THEN flatten_properties([d EXCEPT !.props[i].val = AfterWidening(v)],
                                      i + 1,
                                      Append(items, [key |-> new_key, val |-> Widened(v)]),
                                      parent_key, level, max)
              ELSE flatten_properties(d, i + 1, items, parent_key, level, max)

flatten_schema(d, parent_key, level, max) ==
    IF ~d.hasProps
    THEN Returned(<<>>, d)
    ELSE LET r == flatten_properties(d, 1, <<>>, parent_key, level, max)
         IN IF r.raised THEN r ELSE check_duplicates(sorted(r.items), r.d)

----------------------------------------------------------------------------
(* DbSync.__init__ flattening the schema of a SCHEMA message *)

NotFlattened == [raised |-> FALSE, column |-> <<>>, items |-> <<>>, d |-> <<>>]

InitFlat ==
    /\ SyncIdle
    /\ LoadIdle
    /\ PureIdle
    /\ schema \in SourceSchemas
    /\ max_level \in 0..MaxLevel
    /\ flat = NotFlattened
    /\ fpc = "ready"

\* self.flatten_schema = flatten_schema(stream_schema_message['schema'],
\*                                      max_level=self.data_flattening_max_level)
FlattenSchema ==
    /\ fpc = "ready"
    /\ \E r \in {flatten_schema(schema, <<>>, 0, max_level)} :
         flat' = r
    /\ fpc' = "done"
    /\ UNCHANGED <<syncVars, loadVars, pureVars, schema, max_level>>

NextFlat == FlattenSchema

SpecFlat == InitFlat /\ [][NextFlat]_vars

----------------------------------------------------------------------------
(* Claims about flatten_schema *)

RECURSIVE LeafPaths(_, _, _, _)
\* the property paths of d that are not recursed into, each with its schema
LeafPaths(d, parent_key, level, max) ==
    IF ~d.hasProps THEN {}
    ELSE UNION {
        LET k == d.props[i].key
            v == d.props[i].val
        IN IF v.hasType /\ "object" \in v.type /\ v.hasProps /\ level < max
           THEN LeafPaths(v, Append(parent_key, k), level + 1, max)
           ELSE {[path |-> Append(parent_key, k), val |-> v]}
        : i \in DOMAIN d.props }

Leaves == LeafPaths(schema, <<>>, 0, max_level)

FlatName(path) == flatten_key(path[Len(path)], SubSeq(path, 1, Len(path) - 1))

\* the leaves the alternatives branch passes over without an entry
Skipped(leaf) ==
    ~leaf.val.hasType /\ leaf.val.alt \notin {"string", "array", "object"}

Collide(leaves) ==
    \E p, q \in leaves : p.path # q.path /\ FlatName(p.path) = FlatName(q.path)

EntriesAre(leaves) ==
    /\ ~flat.raised
    /\ { flat.items[i].key : i \in DOMAIN flat.items }
         = { FlatName(p.path) : p \in leaves }
    /\ Len(flat.items) = Cardinality(leaves)
    /\ \A i \in 1..(Len(flat.items) - 1) :
         LexLess(flat.items[i].key, flat.items[i + 1].key)

\* C9: for a schema whose property paths do not collide, flatten_schema
\* returns exactly one entry per leaf path (alternatives included), ordered
\* by flat name without duplicates
C9_OneEntryPerLeafPath ==
    (fpc = "done" /\ ~Collide(Leaves)) => EntriesAre(Leaves)

\* the same, for the leaves that have a 'type' or whose first alternative
\* is a string, an array or an object
C9_OneEntryPerKeptLeaf ==
    (fpc = "done" /\ ~Collide({ p \in Leaves : ~Skipped(p) }))
        => EntriesAre({ p \in Leaves : ~Skipped(p) })

\* C10: whenever two distinct property paths get the same flat name,
\* flatten_schema raises an error that names that column
C10_CollisionRaises ==
    (fpc = "done" /\ Collide(Leaves)) =>
        /\ flat.raised
        /\ \E p, q \in Leaves :
             /\ p.path # q.path
             /\ FlatName(p.path) = FlatName(q.path)
             /\ FlatName(p.path) = flat.column

\* the same, for two paths that both get an entry
C10_KeptCollisionRaises ==
    (fpc = "done" /\ Collide({ p \in Leaves : ~Skipped(p) })) =>
        /\ flat.raised
        /\ \E p, q \in { l \in Leaves : ~Skipped(l) } :
             /\ p.path # q.path
             /\ FlatName(p.path) = FlatName(q.path)
             /\ FlatName(p.path) = flat.column

\* C17: flatten_schema leaves the schema it is given as it was (flat.d is the
\* schema object after the call), so flattening the same object a second time
\* returns the same FlattenedSchema as the first time.
C17_SchemaImmutable ==
    (fpc = "done" /\ ~flat.raised) =>
        /\ flat.d = schema
        /\ flatten_schema(flat.d, <<>>, 0, max_level).items = flat.items

----------------------------------------------------------------------------
(* column_type applied to a leaf schema *)

TypeTags == {"null", "object", "array", "number", "integer", "string", "boolean"}

Formats == {"none", "date-time", "time", "date"}

\* values of 'maximum' on both sides of each limit
Maxima ==
    { <<0, 0, 0>>, Int16Max, <<0, 0, 32768>>, Int32Max, <<0, 2, 147483648>>,
      Int64Max, <<9, 223372036, 854775808>> }

\* values of 'maxLength' (0: the key is absent) on both sides of each limit
MaxLengths ==
    { 0, DEFAULT_VARCHAR_LENGTH, DEFAULT_VARCHAR_LENGTH + 1,
      LONG_VARCHAR_LENGTH, LONG_VARCHAR_LENGTH + 1 }

LeafProperties ==
    { Leaf(t, f, FALSE, <<0, 0, 0>>, ml) :
        t \in SUBSET TypeTags, f \in Formats, ml \in MaxLengths }
    \cup { Leaf(t, f, TRUE, m, ml) :
        t \in SUBSET TypeTags, f \in Formats, m \in Maxima, ml \in MaxLengths }

InitType ==
    /\ SyncIdle
    /\ LoadIdle
    /\ FlatIdle
    /\ RecordIdle
    /\ ConfigIdle
    /\ schema_property \in LeafProperties
    /\ col_type = "unset"

\* column_type(schema_property)
ColumnType ==
    /\ col_type = "unset"
    /\ col_type' = column_type(schema_property)
    /\ UNCHANGED <<syncVars, loadVars, flatVars, recordVars, configVars,
                   schema_property>>

NextType == ColumnType

SpecType == InitType /\ [][NextType]_vars

----------------------------------------------------------------------------
(* Claims about column_type *)

LargeText == {"varchar(65000)", "long varchar"}

Text == {"varchar(80)", "varchar(65000)"}

SizedInteger == {"smallint", "int", "bigint"}

\* the rule table of the specification, first match wins; what rule 6
\* yields is handed in
RuleTable(p, integer_rule) ==
    IF "object" \in p.type \/ "array" \in p.type THEN LargeText
    ELSE IF p.format = "date-time" THEN {"timestamp"}
    ELSE IF p.format = "time" THEN {"time"}
    ELSE IF "number" \in p.type THEN {"numeric"}
    ELSE IF "integer" \in p.type /\ "string" \in p.type THEN Text
    ELSE IF "integer" \in p.type THEN integer_rule
    ELSE IF "boolean" \in p.type THEN {"boolean"}
    ELSE Text

Above64Bit(p) == p.hasMax /\ p.maximum = <<9, 223372036, 854775808>>

\* C11 as stated: the first matching rule decides, object / array first,
\* and a type with integer (rule 6) always gets a sized integer type
C11_RuleOrder ==
    col_type # "unset" => col_type \in RuleTable(schema_property, SizedInteger)

\* C11 as the code has it: the same order; rule 6 gives a sized integer
\* type, or the text type when maximum is above 9223372036854775807
C11_RuleOrderTextAbove64Bit ==
    col_type # "unset" =>
        col_type \in RuleTable(schema_property,
                               IF Above64Bit(schema_property)
                               THEN Text ELSE SizedInteger)

C11_Witness ==
    /\ col_type \in LargeText
    /\ "object" \in schema_property.type
    /\ "integer" \in schema_property.type
    /\ schema_property.format = "date-time"
    /\ schema_property.hasMax

IntegerAlone(p) ==
    /\ "integer" \in p.type
    /\ p.type \cap {"string", "number", "object", "array"} = {}
    /\ p.format \notin {"date-time", "time"}

\* the integer type the specification selects for a maximum (absent: int)
SizeFor(p, above_64_bit) ==
    IF ~p.hasMax THEN {"int"}
    ELSE IF p.maximum \in {<<0, 0, 0>>, Int16Max} THEN {"smallint"}
    ELSE IF p.maximum \in {<<0, 0, 32768>>, Int32Max} THEN {"int"}
    ELSE IF p.maximum \in {<<0, 2, 147483648>>, Int64Max} THEN {"bigint"}
    ELSE above_64_bit

\* C12 as stated: an integer leaf is sized by maximum, and a maximum above
\* 9223372036854775807 gives the general integer type like an absent one
C12_IntegerSizing ==
    (col_type # "unset" /\ IntegerAlone(schema_property))
        => col_type \in SizeFor(schema_property, {"int"})

\* C12 as the code has it: a maximum above 9223372036854775807 gives the
\* text type, varchar(80) or, with maxLength above 80, varchar(65000)
C12_IntegerSizingTextAbove64Bit ==
    (col_type # "unset" /\ IntegerAlone(schema_property))
        => col_type \in SizeFor(schema_property,
                                IF schema_property.maxLength > DEFAULT_VARCHAR_LENGTH
                                THEN {"varchar(65000)"} ELSE {"varchar(80)"})

C12_Witness ==
    /\ col_type = "varchar(80)"
    /\ IntegerAlone(schema_property)
    /\ Above64Bit(schema_property)

----------------------------------------------------------------------------
(* Record values and json.dumps.  A value is [kind, text, items]: kind is
   "null", "str", "int", "bool", "list" or "dict"; text the characters of a
   str, the digits of an int, "true" / "false" of a bool; items the elements
   of a list or the [key, val] items of a dict.  A text is a sequence of
   tokens. *)

JNull == [kind |-> "null", text |-> <<>>, items |-> <<>>]

JStr(chars) == [kind |-> "str", text |-> chars, items |-> <<>>]

JInt(digits) == [kind |-> "int", text |-> <<digits>>, items |-> <<>>]

JBool(b) == [kind |-> "bool", text |-> <<IF b THEN "true" ELSE "false">>, items |-> <<>>]

JList(elements) == [kind |-> "list", text |-> <<>>, items |-> elements]

JDict(pairs) == [kind |-> "dict", text |-> <<>>, items |-> pairs]

RECURSIVE Escaped(_)
\* the characters of a str inside a JSON string: " and \ get a backslash
Escaped(chars) ==
    IF Len(chars) = 0 THEN <<>>
    ELSE (IF chars[1] \in {"\"", "\\"} THEN <<"\\", chars[1]>> ELSE <<chars[1]>>)
         \o Escaped(Tail(chars))

Quoted(chars) == <<"\"">> \o Escaped(chars) \o <<"\"">>

RECURSIVE JsonText(_)
RECURSIVE JsonItems(_, _)

\* the elements of a list or the items of a dict, ", " between them
JsonItems(v, i) ==
    IF i > Len(v.items) THEN <<>>
    ELSE (IF i > 1 THEN <<",", " ">> ELSE <<>>)
         \o (IF v.kind = "dict"
             THEN Quoted(v.items[i].key) \o <<":", " ">> \o JsonText(v.items[i].val)
             ELSE JsonText(v.items[i]))
         \o JsonItems(v, i + 1)

\* the text json.dumps(v) returns
JsonText(v) ==
    CASE v.kind = "null" -> <<"null">>
      [] v.kind = "str" -> Quoted(v.text)
      [] v.kind = "int" -> v.text
      [] v.kind = "bool" -> v.text
      [] v.kind = "list" -> <<"[">> \o JsonItems(v, 1) \o <<"]">>
      [] v.kind = "dict" -> <<"{">> \o JsonItems(v, 1) \o <<"}">>

\* json.dumps(v): a str
json_dumps(v) == JStr(JsonText(v))

----------------------------------------------------------------------------
(* utils.flatten_record and DbSync.record_to_csv_line.  A dict is a
   sequence of [key, val] items with distinct keys, in insertion order. *)

HasKey(items, k) == \E i \in DOMAIN items : items[i].key = k

Get(items, k) == items[CHOOSE i \in DOMAIN items : items[i].key = k].val

RECURSIVE dict(_)
\* dict(items): a key keeps the place of its first item and the value of
\* its last
dict(items) ==
    IF Len(items) = 0 THEN <<>>
    ELSE LET front == dict(SubSeq(items, 1, Len(items) - 1))
             last == items[Len(items)]
         IN IF HasKey(front, last.key)
            THEN [i \in DOMAIN front |->
                    IF front[i].key = last.key THEN last ELSE front[i]]
            ELSE Append(front, last)

\* a slip: the lookup by the flat name (new_key) where the code passes k
should_json_dump_value_flat_name(key, new_key, value, fschema) ==
    \/ value.kind \in {"dict", "list"}
    \/ /\ Len(fschema) > 0
       /\ HasKey(fschema, new_key)
       /\ Get(fschema, new_key).hasType
       /\ Get(fschema, new_key).type = {"null", "object", "array"}

\* _should_json_dump_value(k, v, flatten_schema), called with the key k of
\* the item, not with new_key
should_json_dump_value(key, new_key, value, fschema) ==
    \/ value.kind \in {"dict", "list"}
    \/ /\ Len(fschema) > 0
       /\ HasKey(fschema, key)
       /\ Get(fschema, key).hasType
       /\ Get(fschema, key).type = {"null", "object", "array"}

RECURSIVE flatten_record(_, _, _, _, _)
RECURSIVE flatten_record_items(_, _, _, _, _, _)

\* the for loop over d.items(), from the i-th item on: the items it appends
flatten_record_items(d, i, fschema, parent_key, level, max) ==
    IF i > Len(d.items) THEN <<>>
    ELSE
      LET k == d.items[i].key
          v == d.items[i].val
          new_key == flatten_key(k, parent_key)
      IN (IF v.kind = "dict" /\ level < max
          THEN flatten_record(v, fschema, Append(parent_key, k), level + 1, max)
          ELSE <<[key |-> new_key,
                  val |-> IF should_json_dump_value(k, new_key, v, fschema)
                          THEN json_dumps(v) ELSE v]>>)
         \o flatten_record_items(d, i + 1, fschema, parent_key, level, max)

flatten_record(d, fschema, parent_key, level, max) ==
    dict(flatten_record_items(d, 1, fschema, parent_key, level, max))

\* v == 0 in Python: the int 0 and False
EqualsZero(v) ==
    \/ v.kind = "int" /\ v.text = <<"0">>
    \/ v.kind = "bool" /\ v.text = <<"false">>

\* the truth value of v
Truthy(v) ==
    \/ v.kind = "int" /\ v.text # <<"0">>
    \/ v.kind = "bool" /\ v.text = <<"true">>
    \/ v.kind = "str" /\ Len(v.text) > 0
    \/ v.kind \in {"list", "dict"} /\ Len(v.items) > 0

\* a slip: the truth value alone, zero and False taken for missing
csv_field_truthy(flattened, name) ==
    IF HasKey(flattened, name) /\ Truthy(Get(flattened, name))
    THEN JsonText(Get(flattened, name))
    ELSE <<>>

\* one element of the list record_to_csv_line joins:
\* json.dumps(flatten[name]) if name in flatten
\*     and (flatten[name] == 0 or flatten[name]) else ''
csv_field(flattened, name) ==
    IF /\ HasKey(flattened, name)
       /\ EqualsZero(Get(flattened, name)) \/ Truthy(Get(flattened, name))
    THEN JsonText(Get(flattened, name))
    ELSE <<>>

RECURSIVE JoinComma(_)
\* ','.join(fields)
JoinComma(fields) ==
    IF Len(fields) = 0 THEN <<>>
    ELSE IF Len(fields) = 1 THEN fields[1]
    ELSE fields[1] \o <<",">> \o JoinComma(Tail(fields))

record_to_csv_line(rec, fschema, max) ==
    LET flattened == flatten_record(rec, fschema, <<>>, 0, max)
    IN JoinComma([i \in DOMAIN fschema |->
                    csv_field(flattened, fschema[i].key)])

----------------------------------------------------------------------------
(* Records of a stream: schemas over the keys a and b, and for each schema
   the records whose shape conforms to it *)

SString == Typed({"null", "string"})
SInteger == Typed({"null", "integer"})
SBoolean == Typed({"null", "boolean"})
SJson == Typed({"null", "object", "array"})
SObject == Typed({"object"})

X == JStr(<<"x">>)

\* the values a leaf schema admits
LeafValues(v) ==
    IF ~v.hasType THEN {X}
    ELSE IF v = SString THEN {JNull, X, JStr(<<>>)}
    ELSE IF v = SInteger THEN {JInt("0"), JInt("5")}
    ELSE IF v = SBoolean THEN {JBool(FALSE), JBool(TRUE)}
    ELSE IF v = SJson
         THEN {X, JList(<<>>), JList(<<JInt("5")>>), JDict(<<[key |-> KeyB, val |-> X]>>)}
    ELSE {JDict(<<>>), JDict(<<[key |-> KeyB, val |-> X]>>)}

RECURSIVE ItemsOver(_)
\* the dicts that give some of the properties a value their schema admits
ItemsOver(props) ==
    IF Len(props) = 0 THEN {<<>>}
    ELSE LET rest == ItemsOver(Tail(props))
             vals == IF props[1].val.hasProps
                     THEN {JNull} \cup { JDict(it) : it \in ItemsOver(props[1].val.props) }
                     ELSE LeafValues(props[1].val)
         IN rest \cup { <<[key |-> props[1].key, val |-> x]>> \o r :
                          x \in vals, r \in rest }

RecordObjects ==
    { Object(ps) : ps \in PropsOver(<<KeyB>>, {SString, SInteger, SJson, SObject}) }

RecordSchemas ==
    { Root(ps \o qs) :
        ps \in PropsOver(<<KeyA>>, {SString, SBoolean, SJson, SObject,
                                    Alternatives("string")} \cup RecordObjects),
        qs \in PropsOver(<<KeyB>>, {SString, SInteger, SJson}) }

InitRecord ==
    /\ SyncIdle
    /\ LoadIdle
    /\ TypeIdle
    /\ ConfigIdle
    /\ schema \in RecordSchemas
    /\ max_level \in 0..MaxLevel
    /\ flat = flatten_schema(schema, <<>>, 0, max_level)
    /\ fpc = "done"
    /\ record \in { JDict(it) : it \in ItemsOver(schema.props) }
    /\ flatten = [done |-> FALSE, items |-> <<>>]
    /\ csv_line = [done |-> FALSE, text |-> <<>>]

\* flatten_record(record, self.flatten_schema,
\*                max_level=self.data_flattening_max_level)
FlattenRecord ==
    /\ ~flatten.done
    /\ flatten' = [done |-> TRUE,
                   items |-> flatten_record(record, flat.items, <<>>, 0, max_level)]
    /\ UNCHANGED <<syncVars, loadVars, flatVars, typeVars, configVars,
                   record, csv_line>>

\* self.record_to_csv_line(record)
RecordToCsvLine ==
    /\ ~csv_line.done
    /\ csv_line' = [done |-> TRUE,
                    text |-> record_to_csv_line(record, flat.items, max_level)]
    /\ UNCHANGED <<syncVars, loadVars, flatVars, typeVars, configVars,
                   record, flatten>>

NextRecord == FlattenRecord \/ RecordToCsvLine

SpecRecord == InitRecord /\ [][NextRecord]_vars

----------------------------------------------------------------------------
(* Claims about flatten_record and record_to_csv_line *)

RECURSIVE RecordLeaves(_, _, _, _)
\* the values of a record that are not recursed into, each with its path
RecordLeaves(d, parent_key, level, max) ==
    UNION {
        LET k == d.items[i].key
            v == d.items[i].val
        IN IF v.kind = "dict" /\ level < max
           THEN RecordLeaves(v, Append(parent_key, k), level + 1, max)
           ELSE {[path |-> Append(parent_key, k), val |-> v]}
        : i \in DOMAIN d.items }

Values == RecordLeaves(record, <<>>, 0, max_level)

\* the column of that flat name has the type union {null, object, array}
JsonColumn(name) ==
    /\ HasKey(flat.items, name)
    /\ Get(flat.items, name).hasType
    /\ Get(flat.items, name).type = {"null", "object", "array"}

EncodedByFlatName(leaves) ==
    \A l \in leaves :
        /\ HasKey(flatten.items, FlatName(l.path))
        /\ Get(flatten.items, FlatName(l.path)) =
             IF l.val.kind \in {"list", "dict"} \/ JsonColumn(FlatName(l.path))
             THEN json_dumps(l.val)
             ELSE l.val

\* C13: flatten_record emits each value it does not recurse into under its
\* flat name, JSON-encoded exactly when it is a list or a mapping or the
\* column of that flat name has the type union {null, object, array}, at
\* every nesting level
C13_EncodedByFlatName ==
    flatten.done => EncodedByFlatName(Values)

\* the same, for the values at the top level of the record
C13_EncodedByFlatNameTopLevel ==
    flatten.done => EncodedByFlatName({ l \in Values : Len(l.path) = 1 })

\* the same, for the records whose flattened keys all are columns
C13_EncodedWhenKeysAreColumns ==
    (/\ flatten.done
     /\ \A i \in DOMAIN flatten.items : HasKey(flat.items, flatten.items[i].key))
        => EncodedByFlatName(Values)

\* the field of the specification for a column: empty for an absent key,
\* null and the empty string, the literal for zero and false, the JSON
\* representation otherwise
ExpectedField(flattened, name) ==
    IF ~HasKey(flattened, name) THEN <<>>
    ELSE LET v == Get(flattened, name)
         IN IF v = JNull \/ v = JStr(<<>>) THEN <<>>
            ELSE IF v = JInt("0") THEN <<"0">>
            ELSE IF v = JBool(FALSE) THEN <<"false">>
            ELSE JsonText(v)

\* C14: record_to_csv_line renders one field per FlattenedSchema column, in
\* FlattenedSchema order: 0 / false for zero and false, empty for an absent
\* key, null and the empty string, the JSON representation otherwise
C14_CsvLine ==
    csv_line.done =>
        csv_line.text =
            JoinComma([i \in DOMAIN flat.items |->
                ExpectedField(flatten_record(record, flat.items, <<>>, 0, max_level),
                              flat.items[i].key)])

C14_Witness ==
    /\ csv_line.done
    /\ csv_line.text = <<"false", ",", "0">>
    /\ flatten.done
    /\ Get(flatten.items, KeyA) = JBool(FALSE)
    /\ Get(flatten.items, KeyB) = JInt("0")

\* C18: every key of flatten_record's output is a column name of
\* flatten_schema's output
C18_RecordKeysAreColumns ==
    flatten.done =>
        \A i \in DOMAIN flatten.items : HasKey(flat.items, flatten.items[i].key)

\* the same, for the keys that carry a value other than null
C18_ValueKeysAreColumns ==
    flatten.done =>
        \A i \in DOMAIN flatten.items :
            flatten.items[i].val # JNull => HasKey(flat.items, flatten.items[i].key)

----------------------------------------------------------------------------
(* utils.validate_config, DbSync.__init__ and DbSync.open_connection *)

\* config.get(k, None) of a key the configuration does not hold
Absent == "<absent>"

\* Python truth of a configuration value: None, '' and {} are false
IsSet(v) == v \notin {Absent, "", "{}"}

required_config_keys == <<"host", "port", "user", "password", "dbname">>

MissingKey(k) == [msg |-> "Required key is missing from config", key |-> k]

NeitherRouting ==
    [msg |-> "Neither 'default_target_schema' (string) nor 'schema_mapping' (object) keys set in config.",
     key |-> ""]

\* the required keys that are not set, in the order of required_config_keys
RECURSIVE MissingKeys(_, _)
MissingKeys(config, i) ==
    IF i > Len(required_config_keys) THEN <<>>
    ELSE (IF IsSet(config[required_config_keys[i]]) THEN <<>>
          ELSE <<MissingKey(required_config_keys[i])>>)
         \o MissingKeys(config, i + 1)

\* validate_config that also rejects a configuration with both routing options
validate_config_exactly_one(config) ==
    MissingKeys(config, 1)
    \o (IF IsSet(config.default_target_schema) = IsSet(config.schema_mapping)
        THEN <<NeitherRouting>> ELSE <<>>)

validate_config(config) ==
    MissingKeys(config, 1)
    \o (IF ~IsSet(config.default_target_schema) /\ ~IsSet(config.schema_mapping)
        THEN <<NeitherRouting>> ELSE <<>>)

\* open_connection up to vertica.connect: `conn_string += " sslmode='require'"`
\* adds a str to a dict, which raises TypeError
conn_string(config) ==
    IF config.ssl # Absent /\ config.ssl = "true"
    THEN [done |-> TRUE, raised |-> TRUE, sslmode |-> "unset"]
    ELSE [done |-> TRUE, raised |-> FALSE, sslmode |-> "unset"]

RequiredValues == {Absent, "", "v"}
DefaultTargetSchemaValues == {Absent, "", "s"}
SchemaMappingValues == {Absent, "{}", "{'stream': {'target_schema': 't'}}"}
SslValues == {Absent, "true", "false"}

ConnectionConfigs ==
    [host : RequiredValues, port : RequiredValues, user : RequiredValues,
     password : RequiredValues, dbname : RequiredValues,
     default_target_schema : DefaultTargetSchemaValues,
     schema_mapping : SchemaMappingValues,
     ssl : SslValues]

InitConfig ==
    /\ SyncIdle
    /\ LoadIdle
    /\ FlatIdle
    /\ TypeIdle
    /\ RecordIdle
    /\ connection_config \in ConnectionConfigs
    /\ config_errors = <<>>
    /\ dbsync = "new"
    /\ connection = [done |-> FALSE, raised |-> FALSE, sslmode |-> "unset"]

\* DbSync(connection_config): validate, log and sys.exit(1) on any error
Construct ==
    /\ dbsync = "new"
    /\ config_errors' = validate_config(connection_config)
    /\ dbsync' = IF Len(config_errors') > 0 THEN "sys.exit(1)" ELSE "constructed"
    /\ UNCHANGED <<syncVars, loadVars, flatVars, typeVars, recordVars,
                   connection_config, connection>>

\* self.open_connection()
OpenConnection ==
    /\ dbsync = "constructed"
    /\ ~connection.done
    /\ connection' = conn_string(connection_config)
    /\ UNCHANGED <<syncVars, loadVars, flatVars, typeVars, recordVars,
                   connection_config, config_errors, dbsync>>

NextConfig == Construct \/ OpenConnection

SpecConfig == InitConfig /\ [][NextConfig]_vars

----------------------------------------------------------------------------
(* Claims about configuration validation and open_connection *)

Validated == dbsync \in {"constructed", "sys.exit(1)"}

RoutingErrorReported ==
    \E i \in DOMAIN config_errors : config_errors[i] = NeitherRouting

RoutingOptionsSet ==
    Cardinality({ k \in {"default_target_schema", "schema_mapping"} :
                    IsSet(connection_config[k]) })

\* C15 as stated: the routing error is reported when neither routing option
\* is set and also when both are set, and only then; construction exits
\* non-zero whenever an error is reported.
C15_ExactlyOneRouting ==
    Validated =>
        /\ RoutingErrorReported <=> RoutingOptionsSet # 1
        /\ RoutingErrorReported => dbsync = "sys.exit(1)"

\* C15 as the code has it: the routing error is reported exactly when neither
\* default_target_schema nor schema_mapping is set; with one or both set no
\* routing error is reported; construction exits non-zero exactly when
\* validate_config reported at least one error.
C15_RoutingErrorWhenNeither ==
    Validated =>
        /\ RoutingErrorReported <=> RoutingOptionsSet = 0
        /\ dbsync = "sys.exit(1)" <=> Len(config_errors) > 0

\* both routing options set, and DbSync was constructed without an error
C15_Witness ==
    /\ dbsync = "constructed"
    /\ RoutingOptionsSet = 2
    /\ config_errors = <<>>

\* C16 as stated: with ssl == 'true' open_connection produces a connection in
\* required-SSL mode; with ssl absent it produces one without SSL.
C16_SslConnection ==
    connection.done =>
        /\ connection_config.ssl = "true" =>
              ~connection.raised /\ connection.sslmode = "require"
        /\ connection_config.ssl = Absent =>
              ~connection.raised /\ connection.sslmode = "unset"

====
